---- MODULE Spec2Model ----
(***************************************************************************)
(* Model of the quadrature core of gravann (src/gravann/_integration.py):  *)
(* the integrators U_mc, U_ld, U_trap_opt, ACC_ld, ACC_trap, the grid      *)
(* builder compute_integration_grid and the evaluator                      *)
(* _compute_model_output.                                                   *)
(*                                                                         *)
(* Numbers.  Tensor entries are exact rationals <<num, den>> in lowest     *)
(* terms with den > 0; <<0, 0>> is NaN.  Floating-point rounding is not    *)
(* modelled.  The kernels 1/|d| and 1/|d|^3 are irrational, so an          *)
(* integrand value is kept as a formal sum: a function from the squared    *)
(* distance d2 to the rational coefficient of 1/sqrt(d2) (potential) or    *)
(* of 1/sqrt(d2)^3 (acceleration).  A term with d2 = 0 is a division by a  *)
(* zero distance and is never dropped.                                     *)
(***************************************************************************)
EXTENDS Integers, Sequences, FiniteSets, TLC

\* ------------------------------------------------------------------ bounds
\* Largest point budget N passed to a trapezoid integrator or to
\* compute_integration_grid.
MaxBudget == 16
\* Number of rows of the low-discrepancy table (stands for the 200000 rows).
TableSize == 3
\* Largest number of target points in one call.
MaxTargets == 2
\* Largest factor by which a density field is scaled.
MaxScale == 2
\* largest number of points asked of the cubical or the spherical sampler
MaxSamples == 1
\* largest number of points asked of the spherical_grid sampler
MaxGridSamples == 3
\* largest number of invocations of one sampler callable that are followed
MaxInvocations == 2
\* the candidates of one rejection-sampling iteration (4096 in _plots.py)
batch_size == 2
\* the largest number N of points plot_model_rejection is asked for
MaxPlotN == 2

\* ------------------------------------------------------ rational arithmetic
RECURSIVE GCD(_, _)
GCD(a, b) == IF b = 0 THEN a ELSE GCD(b, a % b)

Abs(x) == IF x < 0 THEN -x ELSE x

NaN == <<0, 0>>

\* n/d in lowest terms; anything over zero is non-finite (kept as NaN)
Q(n, d) ==
    IF d = 0 THEN NaN
    ELSE LET g == GCD(Abs(n), Abs(d))
             s == IF d < 0 THEN -1 ELSE 1
         IN  <<(s * n) \div g, (s * d) \div g>>

RInt(n) == <<n, 1>>
Zero == <<0, 1>>
One == <<1, 1>>

IsNaN(a) == a[2] = 0

RAdd(a, b) == IF IsNaN(a) \/ IsNaN(b) THEN NaN
              ELSE IF a[2] = b[2] /\ a[2] = 1 THEN <<a[1] + b[1], 1>>
              ELSE Q(a[1] * b[2] + b[1] * a[2], a[2] * b[2])
RNeg(a) == IF IsNaN(a) THEN NaN ELSE <<-a[1], a[2]>>
RSub(a, b) == RAdd(a, RNeg(b))
RMul(a, b) == IF IsNaN(a) \/ IsNaN(b) THEN NaN
              ELSE IF a[2] = b[2] /\ a[2] = 1 THEN <<a[1] * b[1], 1>>
              ELSE Q(a[1] * b[1], a[2] * b[2])
RDiv(a, b) == IF IsNaN(a) \/ IsNaN(b) THEN NaN
              ELSE Q(a[1] * b[2], a[2] * b[1])
RAbs(a) == <<Abs(a[1]), a[2]>>
\* a > 0; every comparison with NaN is false
RPos(a) == a[2] > 0 /\ a[1] > 0
RLess(a, b) == ~IsNaN(a) /\ ~IsNaN(b) /\ a[1] * b[2] < b[1] * a[2]

\* A tensor or a vector is a function held as stored values: Stored(f) is f
\* itself, evaluated once.
Stored(f) == f @@ << >>
Vec3(Op(_)) == <<Op(1), Op(2), Op(3)>>

\* ------------------------------------------------------------ torch.rand
\* The generator behind torch.rand: a state in 0 .. RngMod-1 stepped once
\* per drawn number; the k-th number drawn from state s (k = 0, 1, ...) is
\* in [0, 1).
RngMod == 2
RngStep == 1
RandAt(s, k) == Q((s + RngStep * (k + 1)) % RngMod, RngMod)
RngAfter(s, count) == (s + RngStep * count) % RngMod
\* torch.rand(rows, 3): row-major, entry (j, c) is draw 3*(j-1) + (c-1)
rand3(s, rows) ==
    Stored([j \in 1..rows |->
        LET draw(c) == RandAt(s, 3 * (j - 1) + (c - 1)) IN Vec3(draw)])

\* ----------------------------------------------- compute_integration_grid
\* int(np.cbrt(N)): the cube root truncated instead of rounded
TruncCbrt(N) ==
    CHOOSE n \in 0..(N + 1) : n * n * n <= N /\ N < (n + 1) * (n + 1) * (n + 1)

\* int(np.round(np.cbrt(N))): the integer nearest to the cube root (a cube
\* root of an integer is never half-way between two integers)
RoundCbrt(N) ==
    CHOOSE n \in 0..(N + 1) :
        /\ (2*n - 1) * (2*n - 1) * (2*n - 1) < 8 * N
        /\ 8 * N < (2*n + 1) * (2*n + 1) * (2*n + 1)

\* a grid of steps nodes that leaves out the end point
linspace_open(start, end, steps) ==
    Stored([i \in 1..steps |->
        RAdd(start, RMul(RInt(i - 1), RDiv(RSub(end, start), RInt(steps))))])

\* torch.linspace(start, end, steps): both ends included
linspace(start, end, steps) ==
    Stored([i \in 1..steps |->
        IF steps = 1 THEN start
        ELSE RAdd(start, RMul(RInt(i - 1), RDiv(RSub(end, start), RInt(steps - 1))))])

\* meshgrid_points with Cartesian ('xy') indexing: the first two axes swapped
meshgrid_points_xy(g) ==
    LET n == Len(g)
    IN  Stored([r \in 1..(n * n * n) |->
            <<g[(((r - 1) \div n) % n) + 1],
              g[((r - 1) \div (n * n)) + 1],
              g[((r - 1) % n) + 1]>>])

\* torch.meshgrid(g, g, g) flattened and stacked: row i*n*n + j*n + k
\* (0-based i, j, k) is the point (g[i], g[j], g[k])
meshgrid_points(g) ==
    LET n == Len(g)
    IN  Stored([r \in 1..(n * n * n) |->
            <<g[((r - 1) \div (n * n)) + 1],
              g[(((r - 1) \div n) % n) + 1],
              g[((r - 1) % n) + 1]>>])

\* a + b * noise, entrywise on (rows, 3) batches of the same length
AddScaled(a, b, noise) ==
    Stored([j \in 1..Len(a) |->
        LET sum(c) == RAdd(a[j][c], RMul(b[j][c], noise)) IN Vec3(sum)])

\* The values compute_integration_grid leaves: err is "none" or the
\* exception raised, N is the per-axis resolution, rng the generator state.
compute_integration_grid(N, noise, rng) ==
    LET n == RoundCbrt(N)
        grid_1d == linspace(RInt(-1), RInt(1), n)
        eval_points == meshgrid_points(grid_1d)
    IN  IF n < 2
        THEN [err |-> "IndexError", sample_points |-> <<>>, h |-> NaN,
              N |-> n, rng |-> rng]
        ELSE [err |-> "none",
              sample_points |->
                  IF RPos(noise)
                  THEN AddScaled(eval_points, rand3(rng, n * n * n), noise)
                  ELSE eval_points,
              h |-> RSub(grid_1d[2], grid_1d[1]),
              N |-> n,
              rng |-> IF RPos(noise) THEN RngAfter(rng, 3 * n * n * n) ELSE rng]

\* ------------------------------------------------------------ formal sums
\* A value sum_k coef[k] * kernel(k): a function from squared distances to
\* coefficients.  In a result (Canon) zero coefficients are dropped except
\* under k = 0 (a division by a zero distance: inf or NaN whatever the
\* coefficient), and a NaN coefficient makes the whole value NaN.
FNaN == (NaN :> NaN)
FZero == << >>

Canon(f) ==
    IF \E k \in DOMAIN f : IsNaN(k) \/ IsNaN(f[k]) THEN FNaN
    ELSE LET keep == {k \in DOMAIN f : f[k] # Zero \/ k = Zero}
         IN  Stored([k \in keep |-> f[k]])

FTerm(d2, coef) == (d2 :> coef)

FAdd(a, b) ==
    Stored([k \in (DOMAIN a) \cup (DOMAIN b) |->
               IF k \notin DOMAIN b THEN a[k]
               ELSE IF k \notin DOMAIN a THEN b[k]
               ELSE RAdd(a[k], b[k])])

FScale(a, r) ==
    IF IsNaN(r) THEN FNaN ELSE Stored([k \in DOMAIN a |-> RMul(a[k], r)])

FNeg(a) == FScale(a, RInt(-1))

\* the value is inf or NaN
NonFinite(a) == a = FNaN \/ Zero \in DOMAIN a

\* torch.sum over a sequence of values
RECURSIVE FSumUpTo(_, _)
FSumUpTo(seq, n) == IF n = 0 THEN FZero ELSE FAdd(FSumUpTo(seq, n - 1), seq[n])
FSum(seq) == FSumUpTo(seq, Len(seq))

\* ------------------------------------------- encodings and density fields
\* The encoding and the density field are callables supplied by the caller.
\* "direct" is the identity; "nan_neg" is an encoding that is undefined
\* (NaN) on negative coordinates.
Encodings == {"direct", "nan_neg"}

encoding_apply(encoding, points) ==
    Stored([j \in 1..Len(points) |->
        LET enc(c) == IF encoding = "nan_neg" /\ RLess(points[j][c], Zero)
                      THEN NaN ELSE points[j][c]
        IN  Vec3(enc)])

\* where the density field of base "bump_face" is positive
BumpCentre == <<Zero, RInt(-1), Zero>>

\* A density field k * base: base "unit" is 1 everywhere, base "abs" is
\* |x| + |y| + |z| of its (encoded) input, base "bump_face" is 1 at one
\* point and 0 everywhere else.
Models ==
    {[base |-> "unit", k |-> 1]} \cup [base : {"abs"}, k : 1..MaxScale]
        \cup {[base |-> "bump_face", k |-> 1]}

\* A density field whose own output is NaN on part of its domain (as a
\* logarithm of the first coordinate is for x < 0), 1 elsewhere.
NaNModels == {[base |-> "nan_neg_x", k |-> 1]}

model_apply(model, nn_inputs) ==
    Stored([j \in 1..Len(nn_inputs) |->
        IF model.base = "unit" THEN RInt(model.k)
        ELSE IF model.base = "nan_neg_x"
        THEN (IF RLess(nn_inputs[j][1], Zero) THEN NaN ELSE One)
        ELSE IF model.base = "bump_face"
        THEN (IF nn_inputs[j] = BumpCentre THEN RInt(model.k) ELSE Zero)
        ELSE RMul(RInt(model.k),
                  RAdd(RAbs(nn_inputs[j][1]),
                       RAdd(RAbs(nn_inputs[j][2]), RAbs(nn_inputs[j][3]))))])

\* -------------------------------------------------- _compute_model_output
\* torch.any(nn_inputs != nn_inputs)
AnyNaN(batch) == \E j \in 1..Len(batch) : \E c \in 1..3 : IsNaN(batch[j][c])

\* zeroing every row that holds a NaN, not only the NaN entries
ZeroNaNRows(batch) ==
    Stored([j \in 1..Len(batch) |->
        IF \E c \in 1..3 : IsNaN(batch[j][c]) THEN <<Zero, Zero, Zero>>
        ELSE batch[j]])

\* nn_inputs[nn_inputs != nn_inputs] = 0.0
ZeroNaNs(batch) ==
    Stored([j \in 1..Len(batch) |->
        LET fix(c) == IF IsNaN(batch[j][c]) THEN Zero ELSE batch[j][c]
        IN  Vec3(fix)])

\* the encoding hands back the tensor it was given, not a new one
returns_input(encoding) == encoding = "direct"

\* events: the warnings and density-field invocations, in order;
\* model_inputs: the batches handed to the density field, in order;
\* sample_points_after: the caller's batch after the call (the zeroing is
\* done in place on nn_inputs, which is the caller's batch itself when the
\* encoding returns its input)
_compute_model_output(model, encoding, sample_points) ==
    LET nn_inputs == encoding_apply(encoding, sample_points)
        bad == AnyNaN(nn_inputs)
        fed == IF bad THEN ZeroNaNs(nn_inputs) ELSE nn_inputs
    IN  [rho |-> model_apply(model, fed),
         sample_points_after |-> IF returns_input(encoding) THEN fed
                                 ELSE sample_points,
         encoded |-> nn_inputs,
         events |-> (IF bad THEN <<"warn">> ELSE << >>) \o <<"model">>,
         model_inputs |-> <<fed>>]

\* ------------------------------------------------------------ integrands
\* torch.sub(target_point, sample_point)
dr(t, s) == LET sub(c) == RSub(t[c], s[c]) IN Vec3(sub)

\* the square of torch.norm(target_point - sample_point)
dist2(t, s) ==
    LET d == dr(t, s)
    IN  RAdd(RMul(d[1], d[1]), RAdd(RMul(d[2], d[2]), RMul(d[3], d[3])))

\* U_integrand leaving out a sample at zero distance from the target
U_integrand_guarded(t, sample_points, rho) ==
    Stored([j \in 1..Len(sample_points) |->
               IF dist2(t, sample_points[j]) = Zero THEN FZero
               ELSE FTerm(dist2(t, sample_points[j]), rho[j])])

\* rho / torch.norm(target_point - sample_points, dim=1), one value per sample
U_integrand(t, sample_points, rho) ==
    Stored([j \in 1..Len(sample_points) |-> FTerm(dist2(t, sample_points[j]), rho[j])])

\* ACC_integrand with dr taken from the target to the sample
ACC_integrand_reversed(t, sample_points, rho) ==
    Stored([j \in 1..Len(sample_points) |->
        LET d == dr(sample_points[j], t)
            d2 == RAdd(RMul(d[1], d[1]), RAdd(RMul(d[2], d[2]), RMul(d[3], d[3])))
            comp(c) == FTerm(d2, RMul(rho[j], d[c]))
        IN  Vec3(comp)])

\* rho / torch.pow(torch.norm(dr, dim=1), 3) * dr, one 3-vector per sample
ACC_integrand(t, sample_points, rho) ==
    Stored([j \in 1..Len(sample_points) |->
        LET d == dr(t, sample_points[j])
            d2 == RAdd(RMul(d[1], d[1]), RAdd(RMul(d[2], d[2]), RMul(d[3], d[3])))
            comp(c) == FTerm(d2, RMul(rho[j], d[c]))
        IN  Vec3(comp)])

\* f_values[:, c]
Component(f_values, c) == Stored([j \in 1..Len(f_values) |-> f_values[j][c]])

\* ----------------------------------------------------- trapezoid reduction
\* the rectangle rule h * a[0:-1] in place of the trapezoid cells
trap_axis_rectangle(a, h) ==
    FSum([k \in 1..(Len(a) - 1) |-> FScale(a[k], h)])

\* h / 2 * (a[0:-1] + a[1:]) summed along the axis, for a sequence a
trap_axis(a, h) ==
    FSum([k \in 1..(Len(a) - 1) |-> FScale(FAdd(a[k], a[k + 1]), RDiv(h, RInt(2)))])

\* f_values.reshape([N, N, N]) reduced along x, then y, then z
trap_reduce(f_values, N, h) ==
    LET ev(i, j, k) == f_values[(i - 1) * N * N + (j - 1) * N + k]
        int_x == Stored([i \in 1..N |-> Stored([j \in 1..N |->
                     trap_axis([k \in 1..N |-> ev(i, j, k)], h)])])
        int_y == Stored([i \in 1..N |-> trap_axis(int_x[i], h)])
    IN  trap_axis(int_y, h)

\* ------------------------------------------------------------ integrators
\* What a call leaves: err ("none" or the exception), retval (one row per
\* target point; a row is a sequence of 1 or 3 values), events and
\* model_inputs as in _compute_model_output, the sample points, density
\* values, spacing and resolution it used, and the generator state.
Raised(e, events, rng) ==
    [err |-> e, retval |-> << >>, events |-> events, model_inputs |-> << >>,
     sample_points |-> << >>, rho |-> << >>, h |-> NaN, N |-> 0, rng |-> rng]

\* mc_rows_U averaging over the target points instead of the samples
mc_rows_U_wrong_mean(target_points, sample_points, rho, N) ==
    Stored([i \in 1..Len(target_points) |->
        <<Canon(FScale(FScale(FSum(U_integrand(target_points[i], sample_points, rho)),
                              Q(1, Len(target_points))), RInt(-8)))>>])

\* the rows -8 * sum(integrand) / N of the Monte Carlo integrators
mc_rows_U(target_points, sample_points, rho, N) ==
    Stored([i \in 1..Len(target_points) |->
        <<Canon(FScale(FScale(FSum(U_integrand(target_points[i], sample_points, rho)),
                              Q(1, N)), RInt(-8)))>>])

mc_rows_ACC(target_points, sample_points, rho, N) ==
    Stored([i \in 1..Len(target_points) |->
        LET f_values == ACC_integrand(target_points[i], sample_points, rho)
            comp(c) == Canon(FScale(FScale(FSum(Component(f_values, c)), Q(1, N)),
                                    RInt(-8)))
        IN  Vec3(comp)])

\* U_mc evaluating the density field inside the loop, once per target point
U_mc_per_target(target_points, model, encoding, N, rng) ==
    LET u == rand3(rng, N)
        sample_points == Stored([j \in 1..N |->
                             LET remap(c) == RSub(RMul(u[j][c], RInt(2)), One)
                             IN  Vec3(remap)])
        cmo == _compute_model_output(model, encoding, sample_points)
        M == Len(target_points)
    IN  [err |-> "none",
         retval |-> mc_rows_U(target_points, cmo.sample_points_after, cmo.rho, N),
         events |-> Stored([i \in 1..(M * Len(cmo.events)) |->
                               cmo.events[((i - 1) % Len(cmo.events)) + 1]]),
         model_inputs |-> Stored([i \in 1..M |-> cmo.model_inputs[1]]),
         sample_points |-> cmo.sample_points_after, rho |-> cmo.rho, h |-> NaN, N |-> N,
         rng |-> RngAfter(rng, 3 * N)]

U_mc(target_points, model, encoding, N, rng) ==
    LET u == rand3(rng, N)
        sample_points == Stored([j \in 1..N |->
                             LET remap(c) == RSub(RMul(u[j][c], RInt(2)), One)
                             IN  Vec3(remap)])
        cmo == _compute_model_output(model, encoding, sample_points)
    IN  [err |-> "none",
         retval |-> mc_rows_U(target_points, cmo.sample_points_after, cmo.rho, N),
         events |-> cmo.events, model_inputs |-> cmo.model_inputs,
         sample_points |-> cmo.sample_points_after, rho |-> cmo.rho, h |-> NaN, N |-> N,
         rng |-> RngAfter(rng, 3 * N)]

\* the table after a remapping done in place on the rows read
sobol_after_read_inplace(table, N) ==
    Stored([j \in 1..Len(table) |->
        LET remap(c) == RSub(RMul(table[j][c], RInt(2)), One)
        IN  IF j <= N THEN Vec3(remap) ELSE table[j]])

\* the table after sobol_points[:N, :] * 2 - 1 was read from it: the slice
\* is a view and the arithmetic builds a new array, so nothing is written
sobol_after_read(table, N) == table

\* the last N rows of the table instead of the first N
sobol_suffix(table, N) ==
    LET K == IF N < Len(table) THEN N ELSE Len(table)
    IN  Stored([j \in 1..K |->
            LET remap(c) == RSub(RMul(table[Len(table) - K + j][c], RInt(2)), One)
            IN  Vec3(remap)])

\* sobol_points[:N, :] * 2 - 1
sobol_prefix(table, N) ==
    Stored([j \in 1..(IF N < Len(table) THEN N ELSE Len(table)) |->
        LET remap(c) == RSub(RMul(table[j][c], RInt(2)), One) IN Vec3(remap)])

\* a + b for batches of shapes (Len(a), 3) and (Len(b), 3): rows are
\* broadcast when one side has a single row, otherwise the lengths must agree
Broadcastable(a, b) == Len(a) = Len(b) \/ Len(a) = 1 \/ Len(b) = 1

BroadcastAdd(a, b) ==
    LET rows == IF Len(a) > Len(b) THEN Len(a) ELSE Len(b)
        at(x, j) == IF Len(x) = 1 THEN x[1] ELSE x[j]
    IN  Stored([j \in 1..rows |->
            LET sum(c) == RAdd(at(a, j)[c], at(b, j)[c]) IN Vec3(sum)])

\* sobol_points[:N, :] * 2 - 1 + torch.rand(N, 3) * noise
ld_samples(table, N, noise, rng) ==
    LET u == rand3(rng, N)
    IN  BroadcastAdd(sobol_prefix(table, N),
                     Stored([j \in 1..N |->
                         LET jit(c) == RMul(u[j][c], noise) IN Vec3(jit)]))

ld_shapes_ok(table, N) ==
    Broadcastable(sobol_prefix(table, N), [j \in 1..N |-> <<Zero, Zero, Zero>>])

U_ld(target_points, model, encoding, N, noise, table, rng) ==
    LET printed == IF N > Len(table) THEN <<"print">> ELSE << >>
        sample_points == ld_samples(table, N, noise, rng)
        cmo == _compute_model_output(model, encoding, sample_points)
    IN  IF ~ld_shapes_ok(table, N)
        THEN Raised("RuntimeError", printed, RngAfter(rng, 3 * N))
        ELSE [err |-> "none",
              retval |-> mc_rows_U(target_points, cmo.sample_points_after, cmo.rho, N),
              events |-> printed \o cmo.events, model_inputs |-> cmo.model_inputs,
              sample_points |-> cmo.sample_points_after, rho |-> cmo.rho, h |-> NaN, N |-> N,
              rng |-> RngAfter(rng, 3 * N)]

\* ACC_ld without its table check: the prefix is silently cut to the table
ACC_ld_truncating(target_points, model, encoding, N, noise, table, rng) ==
    LET K == IF N < Len(table) THEN N ELSE Len(table)
        sample_points == ld_samples(table, K, noise, rng)
        cmo == _compute_model_output(model, encoding, sample_points)
    IN  [err |-> "none",
         retval |-> mc_rows_ACC(target_points, cmo.sample_points_after, cmo.rho, N),
         events |-> cmo.events, model_inputs |-> cmo.model_inputs,
         sample_points |-> cmo.sample_points_after, rho |-> cmo.rho, h |-> NaN, N |-> N,
         rng |-> RngAfter(rng, 3 * N)]

ACC_ld(target_points, model, encoding, N, noise, table, rng) ==
    LET sample_points == ld_samples(table, N, noise, rng)
        cmo == _compute_model_output(model, encoding, sample_points)
    IN  IF N > Len(table)
        THEN Raised("ValueError", << >>, rng)
        ELSE [err |-> "none",
              retval |-> mc_rows_ACC(target_points, cmo.sample_points_after, cmo.rho, N),
              events |-> cmo.events, model_inputs |-> cmo.model_inputs,
              sample_points |-> cmo.sample_points_after, rho |-> cmo.rho, h |-> NaN, N |-> N,
              rng |-> RngAfter(rng, 3 * N)]

\* The optional arguments sample_points and h of the trapezoid integrators:
\* given = FALSE is sample_points=None, h_given = FALSE is h=None.
NoGrid == [given |-> FALSE, sample_points |-> << >>, h_given |-> FALSE, h |-> NaN]

\* trap_grid rounding the cube root of N also when the grid is given
trap_grid_rounding(N, noise, grid, rng) ==
    IF ~grid.given
    THEN compute_integration_grid(N, noise, rng)
    ELSE IF ~grid.h_given
         THEN [err |-> "ValueError", sample_points |-> << >>, h |-> NaN,
               N |-> N, rng |-> rng]
         ELSE [err |-> "none", sample_points |-> grid.sample_points,
               h |-> grid.h, N |-> RoundCbrt(N), rng |-> rng]

\* trap_grid accepting a grid without its spacing
trap_grid_no_check(N, noise, grid, rng) ==
    IF ~grid.given
    THEN compute_integration_grid(N, noise, rng)
    ELSE [err |-> "none", sample_points |-> grid.sample_points,
          h |-> grid.h, N |-> N, rng |-> rng]

\* "Determine grid to compute on": the grid, spacing and resolution the
\* integrator goes on with, or the exception raised
trap_grid(N, noise, grid, rng) ==
    IF ~grid.given
    THEN compute_integration_grid(N, noise, rng)
    ELSE IF ~grid.h_given
         THEN [err |-> "ValueError", sample_points |-> << >>, h |-> NaN,
               N |-> N, rng |-> rng]
         ELSE [err |-> "none", sample_points |-> grid.sample_points,
               h |-> grid.h, N |-> N, rng |-> rng]

\* f_values.reshape([N, N, N]) is possible
reshape_ok(sample_points, N) == Len(sample_points) = N * N * N

trap_rows_U(target_points, sample_points, rho, N, h) ==
    Stored([i \in 1..Len(target_points) |->
        <<Canon(FNeg(trap_reduce(U_integrand(target_points[i], sample_points, rho),
                                 N, h)))>>])

\* trap_rows_ACC accumulating into one running integral across the targets
trap_rows_ACC_running(target_points, sample_points, rho, N, h) ==
    LET row(i) ==
            LET f_values == ACC_integrand(target_points[i], sample_points, rho)
                comp(c) == FNeg(trap_reduce(Component(f_values, c), N, h))
            IN  Vec3(comp)
        upto(i) ==
            LET comp(c) == Canon(FSum([m \in 1..i |-> row(m)[c]])) IN Vec3(comp)
    IN  Stored([i \in 1..Len(target_points) |-> upto(i)])

trap_rows_ACC(target_points, sample_points, rho, N, h) ==
    Stored([i \in 1..Len(target_points) |->
        LET f_values == ACC_integrand(target_points[i], sample_points, rho)
            comp(c) == Canon(FNeg(trap_reduce(Component(f_values, c), N, h)))
        IN  Vec3(comp)])

U_trap_opt(target_points, model, encoding, N, noise, grid, rng) ==
    LET g == trap_grid(N, noise, grid, rng)
        cmo == _compute_model_output(model, encoding, g.sample_points)
        ran == [err |-> "none", retval |-> << >>,
                events |-> cmo.events, model_inputs |-> cmo.model_inputs,
                sample_points |-> cmo.sample_points_after, rho |-> cmo.rho,
                h |-> g.h, N |-> g.N, rng |-> g.rng]
    IN  IF g.err # "none" THEN Raised(g.err, << >>, g.rng)
        ELSE IF Len(target_points) > 0 /\ ~reshape_ok(g.sample_points, g.N)
        THEN [ran EXCEPT !.err = "RuntimeError"]
        ELSE [ran EXCEPT !.retval =
                 trap_rows_U(target_points, cmo.sample_points_after, cmo.rho, g.N, g.h)]

ACC_trap(target_points, model, encoding, N, noise, grid, rng) ==
    LET g == trap_grid(N, noise, grid, rng)
        cmo == _compute_model_output(model, encoding, g.sample_points)
        ran == [err |-> "none", retval |-> << >>,
                events |-> cmo.events, model_inputs |-> cmo.model_inputs,
                sample_points |-> cmo.sample_points_after, rho |-> cmo.rho,
                h |-> g.h, N |-> g.N, rng |-> g.rng]
    IN  IF g.err # "none" THEN Raised(g.err, << >>, g.rng)
        ELSE IF Len(target_points) > 0 /\ ~reshape_ok(g.sample_points, g.N)
        THEN [ran EXCEPT !.err = "RuntimeError"]
        ELSE [ran EXCEPT !.retval =
                 trap_rows_ACC(target_points, cmo.sample_points_after, cmo.rho, g.N, g.h)]

\* ------------------------------------------- _sample_observation_points
\* int(np.round(np.sqrt(N))): the integer nearest to the square root (a
\* square root of an integer is never half-way between two integers)
RoundSqrt(N) ==
    CHOOSE n \in 0..N :
        /\ 4 * N < (2 * n + 1) * (2 * n + 1)
        /\ n = 0 \/ (2 * n - 1) * (2 * n - 1) < 4 * N

\* the default radius 1.73205 of _get_spherical_grid
GridRadius == Q(173205, 100000)

\* _get_spherical_grid(N): the point with angles phi, theta is
\* radius * (sin(phi)cos(2 theta), sin(phi)sin(2 theta), cos(phi)); it is
\* held as its radius and its two angles, the angles in units of pi.
_get_spherical_grid(N) ==
    LET n == RoundSqrt(N)
        offset == Q(1, n + 2)
        grid_1d == linspace(offset, RSub(One, offset), n)
    IN  Stored([p \in 1..(n * n) |->
            [radius |-> GridRadius,
             phi |-> grid_1d[((p - 1) \div n) + 1],
             theta |-> grid_1d[((p - 1) % n) + 1]]])

\* _limit_to_domain keeping the points on the faces of the domain
_limit_to_domain_closed(points, domain) ==
    LET kept(p) == \E c \in 1..3 :
                       ~RLess(domain[c][1], p[c]) \/ ~RLess(p[c], domain[c][2])
    IN  SelectSeq(points, kept)

\* points[d], d true where a coordinate is below or above the domain
_limit_to_domain(points, domain) ==
    LET kept(p) == \E c \in 1..3 :
                       RLess(p[c], domain[c][1]) \/ RLess(domain[c][2], p[c])
    IN  SelectSeq(points, kept)

\* int(x) of a Python float: truncation toward zero
Trunc(q) == IF q[1] >= 0 THEN q[1] \div q[2] ELSE -((-q[1]) \div q[2])

\* (scale_bounds[0] / scale_bounds[1])**3
cubical_approx(scale_bounds) ==
    LET ratio == RDiv(scale_bounds[1], scale_bounds[2])
    IN  RMul(ratio, RMul(ratio, ratio))

\* 1.0 / (1.0 - approx) divides by zero when the two scales are equal
cubical_divides_by_zero(scale_bounds) == cubical_approx(scale_bounds) = One

\* int(2 * N * (1.0 / (1.0 - approx)))
approx_necessary_samples(N, scale_bounds) ==
    Trunc(RMul(RInt(2 * N), RDiv(One, RSub(One, cubical_approx(scale_bounds)))))

\* what a sampler call leaves: exception, returned batch, generator state
SamplerRaised(e, rng) == [err |-> e, retval |-> << >>, rng |-> rng]

\* the candidates torch.rand(count, 3) * 2 - 1 scaled by scale_bounds[1],
\* u being the values torch.rand returned
cubical_candidates(scale_bounds, u) ==
    Stored([j \in 1..Len(u) |->
        LET scaled(c) == RMul(RSub(RMul(u[j][c], RInt(2)), One), scale_bounds[2])
        IN  Vec3(scaled)])

\* _sample_cubical returning the last N survivors instead of the first N
_sample_cubical_last(N, scale_bounds, u, rng) ==
    IF cubical_divides_by_zero(scale_bounds)
    THEN SamplerRaised("ZeroDivisionError", rng)
    ELSE IF approx_necessary_samples(N, scale_bounds) < 0
    THEN SamplerRaised("RuntimeError", rng)
    ELSE LET lo == RNeg(scale_bounds[1])
             hi == scale_bounds[1]
             points == _limit_to_domain(cubical_candidates(scale_bounds, u),
                                        <<<<lo, hi>>, <<lo, hi>>, <<lo, hi>>>>)
             K == IF N < Len(points) THEN N ELSE Len(points)
         IN  [err |-> "none",
              retval |-> SubSeq(points, Len(points) - K + 1, Len(points)),
              rng |-> RngAfter(rng, 3 * Len(u))]

_sample_cubical(N, scale_bounds, u, rng) ==
    IF cubical_divides_by_zero(scale_bounds)
    THEN SamplerRaised("ZeroDivisionError", rng)
    ELSE IF approx_necessary_samples(N, scale_bounds) < 0
    THEN SamplerRaised("RuntimeError", rng)
    ELSE LET lo == RNeg(scale_bounds[1])
             hi == scale_bounds[1]
             points == _limit_to_domain(cubical_candidates(scale_bounds, u),
                                        <<<<lo, hi>>, <<lo, hi>>, <<lo, hi>>>>)
             K == IF N < Len(points) THEN N ELSE Len(points)
         IN  [err |-> "none", retval |-> SubSeq(points, 1, K),
              rng |-> RngAfter(rng, 3 * Len(u))]

\* cos and sin of 2 pi t for the quarter turns
cos_turn(t) ==
    CASE t = Zero -> One [] t = Q(1, 4) -> Zero
      [] t = Q(1, 2) -> RInt(-1) [] t = Q(3, 4) -> Zero

sin_turn(t) ==
    CASE t = Zero -> Zero [] t = Q(1, 4) -> One
      [] t = Q(1, 2) -> Zero [] t = Q(3, 4) -> RInt(-1)

\* the non-negative square root of a rational square
SqrtQ(q) == CHOOSE r \in {Q(a, b) : a \in 0..5, b \in 1..5} : RMul(r, r) = q

\* the direction (sin(phi)cos(theta), sin(phi)sin(theta), cos(phi)) for
\* theta = 2 pi u_theta and phi = acos(1 - 2 u_phi), phi in [0, pi]
spherical_direction(u_theta, u_phi) ==
    LET cos_phi == RSub(One, RMul(RInt(2), u_phi))
        sin_phi == SqrtQ(RSub(One, RMul(cos_phi, cos_phi)))
    IN  <<RMul(sin_phi, cos_turn(u_theta)), RMul(sin_phi, sin_turn(u_theta)), cos_phi>>

\* _sample_spherical drawing the radius scale from [0,1) directly
_sample_spherical_unscaled(N, radius_bounds, u, rng) ==
    [err |-> "none",
     retval |-> Stored([j \in 1..N |->
        LET R1 == radius_bounds[2]
        IN  [r3 |-> RMul(RMul(R1, RMul(R1, R1)), u[j][3]),
             dir |-> spherical_direction(u[j][1], u[j][2])]]),
     rng |-> RngAfter(rng, 3 * N)]

\* _sample_spherical(N, radius_bounds): u[j] holds the j-th values of the
\* three torch.rand(N, 1) calls (theta, phi, uni). A point r * direction,
\* r = radius_bounds[1] * uni^(1/3), is held as r^3 and its direction.
_sample_spherical(N, radius_bounds, u, rng) ==
    [err |-> "none",
     retval |-> Stored([j \in 1..N |->
        LET R1 == radius_bounds[2]
            minimal_radius_scale == RDiv(radius_bounds[1], R1)
            uni == RAdd(minimal_radius_scale,
                        RMul(RSub(One, minimal_radius_scale), u[j][3]))
        IN  [r3 |-> RMul(RMul(R1, RMul(R1, R1)), uni),
             dir |-> spherical_direction(u[j][1], u[j][2])]]),
     rng |-> RngAfter(rng, 3 * N)]

\* what get_target_point_sampler returns: None, or a lambda without
\* parameters that closes over N, the bounds its method reads, and, for
\* spherical_grid, the points already computed
NoSampler == [kind |-> "None"]

Lambda(method, N, bounds, points) ==
    [kind |-> "lambda", params |-> {}, method |-> method, N |-> N,
     bounds |-> bounds, points |-> points]

\* get_target_point_sampler raising on a method name it does not know
get_target_point_sampler_strict(N, method, radius_bounds, scale_bounds, rng) ==
    IF method \notin {"cubical", "spherical", "spherical_grid"}
    THEN [err |-> "ValueError", sampler |-> NoSampler, calls |-> << >>, rng |-> rng]
    ELSE [err |-> "none",
          sampler |-> CASE method = "cubical" -> Lambda(method, N, scale_bounds, << >>)
                        [] method = "spherical" -> Lambda(method, N, radius_bounds, << >>)
                        [] method = "spherical_grid" ->
                              Lambda(method, N, << >>, _get_spherical_grid(N)),
          calls |-> IF method = "spherical_grid" THEN <<"_get_spherical_grid">>
                    ELSE << >>,
          rng |-> rng]

\* calls: the sampling functions run during the call, in order
get_target_point_sampler(N, method, radius_bounds, scale_bounds, rng) ==
    [err |-> "none",
     sampler |-> CASE method = "cubical" -> Lambda(method, N, scale_bounds, << >>)
                   [] method = "spherical" -> Lambda(method, N, radius_bounds, << >>)
                   [] method = "spherical_grid" ->
                         Lambda(method, N, << >>, _get_spherical_grid(N))
                   [] OTHER -> NoSampler,
     calls |-> IF method = "spherical_grid" THEN <<"_get_spherical_grid">> ELSE << >>,
     rng |-> rng]

\* invoking the callable with the grid recomputed at every invocation
sampler_call_regrid(f, u, rng) ==
    IF f.kind = "None"
    THEN [err |-> "TypeError", retval |-> << >>, calls |-> << >>, rng |-> rng,
          sampler |-> f]
    ELSE [err |-> "none", retval |-> _get_spherical_grid(f.N),
          calls |-> <<"_get_spherical_grid">>, rng |-> rng, sampler |-> f]

\* targets_point_sampler(): invoking what get_target_point_sampler returned
\* (None is not callable); u holds the values torch.rand returns
sampler_call(f, u, rng) ==
    IF f.kind = "None"
    THEN [err |-> "TypeError", retval |-> << >>, calls |-> << >>, rng |-> rng,
          sampler |-> f]
    ELSE CASE f.method = "cubical" ->
                LET r == _sample_cubical(f.N, f.bounds, u, rng)
                IN  [err |-> r.err, retval |-> r.retval,
                     calls |-> <<"_sample_cubical">>, rng |-> r.rng, sampler |-> f]
           [] f.method = "spherical" ->
                LET r == _sample_spherical(f.N, f.bounds, u, rng)
                IN  [err |-> r.err, retval |-> r.retval,
                     calls |-> <<"_sample_spherical">>, rng |-> r.rng, sampler |-> f]
           [] f.method = "spherical_grid" ->
                [err |-> "none", retval |-> f.points, calls |-> << >>,
                 rng |-> rng, sampler |-> f]

\* ------------------------------------------------------- the mascon labels
\* the label with the difference taken from the mascon to the target
ACC_L_repulsive(target_points, mascon_points, mascon_masses) ==
    Stored([i \in 1..Len(target_points) |->
        LET comp(c) ==
                Canon(FSum([k \in 1..Len(mascon_points) |->
                    FTerm(dist2(mascon_points[k], target_points[i]),
                          RMul(mascon_masses[k],
                               RSub(target_points[i][c], mascon_points[k][c])))]))
        IN  Vec3(comp)])

\* ACC_L(target_points, mascon_points, mascon_masses): row i is the sum over
\* the mascons k of mass_k * (mascon_k - target_i) / |mascon_k - target_i|^3,
\* each component held as a formal sum over the squared distances
ACC_L(target_points, mascon_points, mascon_masses) ==
    Stored([i \in 1..Len(target_points) |->
        LET comp(c) ==
                Canon(FSum([k \in 1..Len(mascon_points) |->
                    FTerm(dist2(mascon_points[k], target_points[i]),
                          RMul(mascon_masses[k],
                               RSub(mascon_points[k][c], target_points[i][c])))]))
        IN  Vec3(comp)])

\* ------------------------------------------------------ the training loop
\* the parameters each integrator's def line declares
Params(fn) ==
    CASE fn = "U_mc" -> {"target_points", "model", "encoding", "N"}
      [] fn \in {"U_ld", "ACC_ld"} ->
            {"target_points", "model", "encoding", "N", "noise"}
      [] fn \in {"U_trap_opt", "ACC_trap"} ->
            {"target_points", "model", "encoding", "N", "verbose", "noise",
             "sample_points", "h"}

\* mc_method(target_points, model, encoding, N=n_quadrature, noise=...):
\* a keyword the function does not declare is a TypeError at the call
mc_method_call(mc_method, target_points, model, encoding, N, noise, table, rng) ==
    IF ~({"N", "noise"} \subseteq Params(mc_method))
    THEN Raised("TypeError", << >>, rng)
    ELSE CASE mc_method = "U_mc" -> U_mc(target_points, model, encoding, N, rng)
           [] mc_method = "U_ld" ->
                 U_ld(target_points, model, encoding, N, noise, table, rng)
           [] mc_method = "ACC_ld" ->
                 ACC_ld(target_points, model, encoding, N, noise, table, rng)
           [] mc_method = "U_trap_opt" ->
                 U_trap_opt(target_points, model, encoding, N, noise, NoGrid, rng)
           [] mc_method = "ACC_trap" ->
                 ACC_trap(target_points, model, encoding, N, noise, NoGrid, rng)

\* ------------------------------------------------ plot_model_rejection
\* rho_candidates > (torch.rand(batch_size, 1) + crop_p), one flag per
\* candidate; a comparison with NaN is False
rejection_mask(rho_candidates, u, crop_p) ==
    Stored([j \in 1..Len(rho_candidates) |->
               RLess(RAdd(u[j], crop_p), rho_candidates[j])])

\* boolean-mask indexing: the entries of seq whose flag is set, in order
RECURSIVE MaskedUpTo(_, _, _)
MaskedUpTo(seq, mask, n) ==
    IF n = 0 THEN << >>
    ELSE IF mask[n] THEN Append(MaskedUpTo(seq, mask, n - 1), seq[n])
    ELSE MaskedUpTo(seq, mask, n - 1)
Masked(seq, mask) == MaskedUpTo(seq, mask, Len(seq))

\* the loop variables before the first iteration; all_points and all_rho
\* are the lists the batches are appended to, points and rho what is kept
\* after the loop
rejection_start ==
    [err |-> "none", found |-> 0, all_points |-> << >>, all_rho |-> << >>,
     points |-> << >>, rho |-> << >>, returned |-> FALSE]

\* model(nn_inputs).detach() * c for the encoded candidates
candidate_densities(model, encoding, c, candidates) ==
    LET output == model_apply(model, encoding_apply(encoding, candidates))
    IN  Stored([j \in 1..Len(candidates) |-> RMul(output[j], c)])

\* the rest of the loop body with a batch that is all rejected taken like
\* any other
rejection_accept_no_return(loop, candidates, rho_candidates, mask) ==
    [loop EXCEPT !.all_points = loop.all_points \o Masked(candidates, mask),
                 !.all_rho = loop.all_rho \o Masked(rho_candidates, mask),
                 !.found = loop.found + Len(Masked(rho_candidates, mask))]

\* the rest of the loop body: return if nothing is accepted, else append
\* the accepted candidates and densities and count them
rejection_accept(loop, candidates, rho_candidates, mask) ==
    IF Len(Masked(candidates, mask)) = 0
    THEN [loop EXCEPT !.returned = TRUE]
    ELSE [loop EXCEPT !.all_points = loop.all_points \o Masked(candidates, mask),
                      !.all_rho = loop.all_rho \o Masked(rho_candidates, mask),
                      !.found = loop.found + Len(Masked(rho_candidates, mask))]

\* torch.cat(...)[:N]: the first N rows, all of them if there are fewer
first_rows(seq, N) == SubSeq(seq, 1, IF N < Len(seq) THEN N ELSE Len(seq))

\* the two statements after the loop
rejection_exit(loop, N) ==
    [loop EXCEPT !.points = first_rows(loop.all_points, N),
                 !.rho = first_rows(loop.all_rho, N)]

\* -------------------------------------------------------- the sobol table
\* sobol_seq.i4_sobol_generate(3, TableSize): the first points of the
\* 3-dimensional Sobol sequence, in eighths
SobolEighths ==
    <<<<4, 4, 4>>, <<6, 2, 6>>, <<2, 6, 2>>, <<3, 3, 5>>,
      <<7, 7, 1>>, <<5, 1, 3>>, <<1, 5, 7>>>>

i4_sobol_generate(rows) ==
    Stored([j \in 1..rows |->
        LET p(c) == Q(SobolEighths[((j - 1) % Len(SobolEighths)) + 1][c], 8)
        IN  Vec3(p)])

\* ------------------------------------------------------------------ state
VARIABLES
    pc,            \* "idle": between calls; "done": a call has returned or raised
    rng,           \* state of the process-wide torch generator
    sobol_points,  \* the module-level low-discrepancy table
    call,          \* the call made: function name and arguments
    out            \* what the call left: exception, return value, effects

vars == <<pc, rng, sobol_points, call, out>>

\* ------------------------------------------------------------- the inputs
Noises == {Zero, Q(1, 4)}

\* target points: one outside the cube [-1,1]^3, one at its centre
TargetSet == {<<Zero, Zero, RInt(2)>>, <<Zero, Zero, Zero>>}

RECURSIVE SeqsUpTo(_, _)
SeqsUpTo(S, n) ==
    IF n = 0 THEN {<< >>}
    ELSE LET shorter == SeqsUpTo(S, n - 1)
         IN  shorter \cup {Append(q, x) : q \in {p \in shorter : Len(p) = n - 1}, x \in S}

TargetBatches == SeqsUpTo(TargetSet, MaxTargets)

\* point budgets at which the rounded cube root changes:
\* the integrators read their budget through RoundCbrt only
Budgets ==
    {b \in 0..MaxBudget :
        \/ b = 0
        \/ RoundCbrt(b) # RoundCbrt(b - 1)
        \/ RoundCbrt(b) # RoundCbrt(b + 1)}

\* How a caller of a trapezoid integrator uses budget B:
\*   "none"        no grid, N = B
\*   "grid_n"      grid and h from compute_integration_grid(B), N = returned N
\*   "grid_budget" grid and h from compute_integration_grid(B), N = B
\*   "grid_no_h"   grid from compute_integration_grid(B) without h, N = returned N
\*   "grid_nan"    as "grid_n", the first coordinate of the grid set to NaN
GridModes == {"none", "grid_n", "grid_budget", "grid_no_h", "grid_nan"}

\* a batch with its first coordinate replaced by NaN
WithNaN(points) == [points EXCEPT ![1] = <<NaN, points[1][2], points[1][3]>>]

CallerGrid(B, mode) ==
    LET g == compute_integration_grid(B, Zero, 0)
    IN  IF mode = "none" THEN NoGrid
        ELSE [given |-> TRUE,
              sample_points |-> IF mode = "grid_nan" THEN WithNaN(g.sample_points)
                                ELSE g.sample_points,
              h_given |-> mode # "grid_no_h", h |-> g.h]

CallerN(B, mode) ==
    IF mode \in {"none", "grid_budget"} THEN B
    ELSE compute_integration_grid(B, Zero, 0).N

\* a caller can pass a grid only if it could build one; the grid with a NaN
\* is followed at the coarsest resolution
CanCall(B, mode) ==
    \/ mode = "none"
    \/ /\ compute_integration_grid(B, Zero, 0).err = "none"
       /\ mode = "grid_nan" => compute_integration_grid(B, Zero, 0).N = 2

\* sampler arguments: the three supported methods and an unsupported name
Methods == {"cubical", "spherical", "spherical_grid", "other"}

\* radius_bounds: a degenerate shell and a proper one
RadiusBounds == {<<One, One>>, <<One, RInt(2)>>}

\* scale_bounds: inner cube half as large as the outer one, and equal scales
ScaleBounds == {<<One, RInt(2)>>, <<RInt(2), RInt(2)>>}

\* values torch.rand(count, 3) may return for a cubical candidate; with
\* scale_bounds [1, 2] they give a candidate inside the inner cube, one with
\* coordinates on its faces, and two outside
CubeDraws ==
    {<<Q(1, 2), Q(1, 2), Q(1, 2)>>, <<Q(3, 4), Q(1, 4), Q(1, 2)>>,
     <<Zero, Q(1, 2), Q(7, 8)>>, <<Q(7, 8), Zero, Q(1, 2)>>}

\* the point counts asked of each method
SampleCounts(method) ==
    IF method = "spherical_grid" THEN 0..MaxGridSamples ELSE 0..MaxSamples

\* values the three torch.rand(N, 1) calls of _sample_spherical may return
\* for one point (theta, phi, uni), all in [0,1)
SphereDraws ==
    {<<Zero, Q(1, 2), Zero>>, <<Q(1, 4), Q(1, 5), Q(1, 2)>>,
     <<Q(1, 2), Zero, Q(7, 8)>>, <<Q(3, 4), Q(4, 5), Zero>>}

\* the values torch.rand may return during one invocation of the callable f
DrawChoices(f) ==
    IF f.kind = "None" THEN {<< >>}
    ELSE CASE f.method = "cubical" ->
                IF cubical_divides_by_zero(f.bounds) THEN {<< >>}
                ELSE IF approx_necessary_samples(f.N, f.bounds) < 0 THEN {<< >>}
                ELSE [1..approx_necessary_samples(f.N, f.bounds) -> CubeDraws]
           [] f.method = "spherical" -> [1..f.N -> SphereDraws]
           [] f.method = "spherical_grid" -> {<< >>}

SamplerFns == {"get_target_point_sampler", "targets_point_sampler"}

\* mascon models: one unit mass at the origin, and two unit masses at
\* (-1/2, 0, 0) and (1/2, 0, 0)
MasconModels ==
    {[points |-> <<<<Zero, Zero, Zero>>>>, masses |-> <<One>>],
     [points |-> <<<<Q(-1, 2), Zero, Zero>>, <<Q(1, 2), Zero, Zero>>>>,
      masses |-> <<One, One>>]}

\* raw batches handed to _compute_model_output: the grids of the budgets,
\* and the coarsest grid with a NaN coordinate
RawBatches ==
    {compute_integration_grid(B, Zero, 0).sample_points : B \in Budgets}
        \cup {WithNaN(compute_integration_grid(4, Zero, 0).sample_points)}

\* candidate points of the rejection sampling, rows of rand * 2 - 1
PlotPoints == {<<Zero, Zero, Zero>>, <<RInt(-1), Zero, Zero>>}
\* values of torch.rand(batch_size, 1)
PlotThresholds == {Zero, Q(99, 100)}
\* the crop_p argument (its default) and the normalisation constant c
CropP == Q(1, 100)
PlotC == One
FixedLen(S, n) == {q \in SeqsUpTo(S, n) : Len(q) = n}
\* the batches of candidates and of thresholds of one iteration
CandidateBatches == FixedLen(PlotPoints, batch_size)
ThresholdBatches == FixedLen(PlotThresholds, batch_size)

NoCall == [fn |-> "none"]
NoOut == [err |-> "none"]

Init ==
    /\ pc = "idle"
    /\ rng \in 0..(RngMod - 1)
    /\ sobol_points = i4_sobol_generate(TableSize)
    /\ call = NoCall
    /\ out = NoOut

Finish(c, r) ==
    /\ call' = c
    /\ out' = r
    /\ rng' = r.rng
    /\ pc' = "done"
    /\ UNCHANGED sobol_points

\* a call of U_ld or ACC_ld: the only functions that touch sobol_points
FinishLd(c, r) ==
    /\ call' = c
    /\ out' = r
    /\ rng' = r.rng
    /\ pc' = "done"
    /\ sobol_points' = IF r.err = "ValueError" THEN sobol_points
                       ELSE sobol_after_read(sobol_points, c.N)

Call_compute_integration_grid ==
    /\ pc = "idle"
    /\ \E N \in 0..MaxBudget, noise \in Noises :
        LET r == compute_integration_grid(N, noise, rng)
        IN  Finish([fn |-> "compute_integration_grid", N |-> N, noise |-> noise,
                    rng |-> rng], r)

Call__compute_model_output ==
    /\ pc = "idle"
    /\ \E model \in Models \cup NaNModels, encoding \in Encodings,
          sample_points \in RawBatches :
        LET r == _compute_model_output(model, encoding, sample_points)
        IN  Finish([fn |-> "_compute_model_output", model |-> model,
                    encoding |-> encoding, sample_points |-> sample_points],
                   [err |-> "none", retval |-> r.rho, events |-> r.events,
                    model_inputs |-> r.model_inputs, encoded |-> r.encoded,
                    sample_points_after |-> r.sample_points_after,
                    rng |-> rng])

Call_U_mc ==
    /\ pc = "idle"
    /\ \E target_points \in TargetBatches, model \in Models \cup NaNModels, encoding \in Encodings,
          N \in 0..(TableSize + 1) :
        Finish([fn |-> "U_mc", target_points |-> target_points, model |-> model,
                encoding |-> encoding, N |-> N, rng |-> rng],
               U_mc(target_points, model, encoding, N, rng))

Call_U_ld ==
    /\ pc = "idle"
    /\ \E target_points \in TargetBatches, model \in Models, encoding \in Encodings,
          N \in 0..(TableSize + 1), noise \in Noises :
        FinishLd([fn |-> "U_ld", target_points |-> target_points, model |-> model,
                encoding |-> encoding, N |-> N, noise |-> noise, rng |-> rng],
                 U_ld(target_points, model, encoding, N, noise, sobol_points, rng))

Call_ACC_ld ==
    /\ pc = "idle"
    /\ \E target_points \in TargetBatches, model \in Models, encoding \in Encodings,
          N \in 0..(TableSize + 1), noise \in Noises :
        FinishLd([fn |-> "ACC_ld", target_points |-> target_points, model |-> model,
                encoding |-> encoding, N |-> N, noise |-> noise, rng |-> rng],
                 ACC_ld(target_points, model, encoding, N, noise, sobol_points, rng))

Call_U_trap_opt ==
    /\ pc = "idle"
    /\ \E target_points \in TargetBatches, model \in Models, encoding \in Encodings,
          B \in Budgets, noise \in Noises, mode \in GridModes :
        /\ CanCall(B, mode)
        /\ Finish([fn |-> "U_trap_opt", target_points |-> target_points, model |-> model,
                   encoding |-> encoding, N |-> CallerN(B, mode), noise |-> noise,
                   grid |-> CallerGrid(B, mode), B |-> B, mode |-> mode, rng |-> rng],
                  U_trap_opt(target_points, model, encoding, CallerN(B, mode), noise,
                     CallerGrid(B, mode), rng))

Call_ACC_trap ==
    /\ pc = "idle"
    /\ \E target_points \in TargetBatches, model \in Models, encoding \in Encodings,
          B \in Budgets, noise \in Noises, mode \in GridModes :
        /\ CanCall(B, mode)
        /\ Finish([fn |-> "ACC_trap", target_points |-> target_points, model |-> model,
                   encoding |-> encoding, N |-> CallerN(B, mode), noise |-> noise,
                   grid |-> CallerGrid(B, mode), B |-> B, mode |-> mode, rng |-> rng],
                  ACC_trap(target_points, model, encoding, CallerN(B, mode), noise,
                     CallerGrid(B, mode), rng))

\* one step of the training loop with any of the integrators as mc_method
Call_mc_method ==
    /\ pc = "idle"
    /\ \E mc_method \in {"U_mc", "U_ld", "ACC_ld", "U_trap_opt", "ACC_trap"},
          target_points \in TargetBatches, N \in 0..(TableSize + 1),
          noise \in Noises :
        LET model == [base |-> "unit", k |-> 1]
            c == [fn |-> "mc_method", mc_method |-> mc_method,
                  target_points |-> target_points, model |-> model,
                  encoding |-> "direct", N |-> N, noise |-> noise, rng |-> rng]
            r == mc_method_call(mc_method, target_points, model, "direct", N,
                                noise, sobol_points, rng)
        IN  IF mc_method \in {"U_ld", "ACC_ld"} THEN FinishLd(c, r) ELSE Finish(c, r)

\* labels = gravann.ACC_L(target_points, mascon_points, mascon_masses)
Call_ACC_L ==
    /\ pc = "idle"
    /\ \E target_points \in TargetBatches, mascon \in MasconModels :
        Finish([fn |-> "ACC_L", target_points |-> target_points,
                mascon_points |-> mascon.points, mascon_masses |-> mascon.masses,
                rng |-> rng],
               [err |-> "none",
                retval |-> ACC_L(target_points, mascon.points, mascon.masses),
                rng |-> rng])

Call_get_target_point_sampler ==
    /\ pc = "idle"
    /\ \E method \in Methods, radius_bounds \in RadiusBounds,
          scale_bounds \in ScaleBounds :
        \E N \in SampleCounts(method) :
        Finish([fn |-> "get_target_point_sampler", N |-> N, method |-> method,
                radius_bounds |-> radius_bounds, scale_bounds |-> scale_bounds,
                nth |-> 0, rng |-> rng],
               get_target_point_sampler(N, method, radius_bounds, scale_bounds, rng))

\* the caller invokes the callable it got, for the (nth + 1)-th time
Call_targets_point_sampler ==
    /\ pc = "done"
    /\ call.fn \in SamplerFns
    /\ call.nth < MaxInvocations
    /\ \E u \in DrawChoices(out.sampler) :
        Finish([fn |-> "targets_point_sampler", sampler |-> out.sampler,
                draws |-> u, nth |-> call.nth + 1, rng |-> rng],
               sampler_call(out.sampler, u, rng))

\* plot_model_rejection up to its loop: the generator is seeded, the lists
\* are empty
Call_plot_model_rejection ==
    /\ pc = "idle"
    /\ \E model \in Models \cup NaNModels, encoding \in Encodings, N \in 1..MaxPlotN :
        /\ call' = [fn |-> "plot_model_rejection", model |-> model,
                    encoding |-> encoding, N |-> N, crop_p |-> CropP, c |-> PlotC]
        /\ out' = rejection_start
    /\ rng' = 42 % RngMod
    /\ pc' = "loop"
    /\ UNCHANGED sobol_points

\* while found < N: one iteration, which goes round again or returns
plot_model_rejection_iteration ==
    /\ pc = "loop"
    /\ out.found < call.N
    /\ \E candidates \in CandidateBatches, u \in ThresholdBatches :
       \E rho_candidates \in {candidate_densities(call.model, call.encoding,
                                                  call.c, candidates)} :
       \E mask \in {rejection_mask(rho_candidates, u, call.crop_p)} :
       \E loop \in {rejection_accept(out, candidates, rho_candidates, mask)} :
           /\ out' = loop
           /\ pc' = IF loop.returned THEN "done" ELSE "loop"
    /\ rng' = RngAfter(rng, 4 * batch_size)
    /\ UNCHANGED <<call, sobol_points>>

\* found >= N: the loop is left and the first N rows are kept
plot_model_rejection_exit ==
    /\ pc = "loop"
    /\ ~(out.found < call.N)
    /\ out' = rejection_exit(out, call.N)
    /\ pc' = "done"
    /\ UNCHANGED <<call, rng, sobol_points>>

\* the caller takes the result and goes on to its next statement
Return ==
    /\ pc = "done"
    /\ pc' = "idle"
    /\ call' = NoCall
    /\ out' = NoOut
    /\ UNCHANGED <<rng, sobol_points>>

Next ==
    \/ Call_compute_integration_grid
    \/ Call__compute_model_output
    \/ Call_U_mc
    \/ Call_U_ld
    \/ Call_ACC_ld
    \/ Call_U_trap_opt
    \/ Call_ACC_trap
    \/ Call_mc_method
    \/ Call_ACC_L
    \/ Call_get_target_point_sampler
    \/ Call_targets_point_sampler
    \/ Call_plot_model_rejection
    \/ plot_model_rejection_iteration
    \/ plot_model_rejection_exit
    \/ Return

Spec == Init /\ [][Next]_vars

\* plot_model_rejection on its own: the interpreter goes on executing a
\* loop it is in
PlotNext ==
    \/ Call_plot_model_rejection
    \/ plot_model_rejection_iteration
    \/ plot_model_rejection_exit
    \/ Return

FairSpec ==
    /\ Init
    /\ [][PlotNext]_vars
    /\ WF_vars(plot_model_rejection_iteration)
    /\ WF_vars(plot_model_rejection_exit)

\* ----------------------------------------------------------------- claims
Done(fn) == pc = "done" /\ call.fn = fn
Range(seq) == {seq[i] : i \in 1..Len(seq)}
ModelCalled == "model" \in Range(out.events) \/ out.model_inputs # << >>
TrapFns == {"U_trap_opt", "ACC_trap"}

\* C1: ACC_ld with N greater than the number of rows of the low-discrepancy
\* table raises ValueError before the density field is evaluated and returns
\* nothing (no truncated estimate); with N up to and including the table
\* size the check passes and the call uses exactly N sample points.
C1_AccLdTableCheck ==
    Done("ACC_ld") =>
        IF call.N > Len(sobol_points)
        THEN out.err = "ValueError" /\ ~ModelCalled /\ out.retval = << >>
        ELSE out.err = "none" /\ Len(out.sample_points) = call.N

C1_Witness ==
    /\ Done("ACC_ld")
    /\ call.N = Len(sobol_points) + 1
    /\ Len(call.target_points) > 0
    /\ out.err = "ValueError"

\* C2 (as claimed): U_ld with N greater than the number of rows of the table
\* only prints its warning: the call ends without an error and returns one
\* potential value per target point.
C2_UldWarnsOnly ==
    (Done("U_ld") /\ call.N > Len(sobol_points)) =>
        /\ "print" \in Range(out.events)
        /\ out.err = "none"
        /\ Len(out.retval) = Len(call.target_points)

\* C3 (as claimed): a trapezoid integrator given a grid without h raises
\* ValueError before the density field is evaluated; without a grid it
\* builds grid and h with compute_integration_grid and raises no error.
C3_Original ==
    \A fn \in TrapFns :
        Done(fn) =>
            /\ (call.grid.given /\ ~call.grid.h_given) =>
                   (out.err = "ValueError" /\ ~ModelCalled)
            /\ ~call.grid.given => out.err = "none"

\* C3 (amended): a trapezoid integrator given a grid without h raises
\* ValueError before the density field is evaluated; without a grid it never
\* raises ValueError, it uses the grid and h of compute_integration_grid, and
\* it raises no error exactly when the rounded cube root of N is at least 2
\* (below that compute_integration_grid fails with IndexError before the
\* density field is evaluated).
C3_MissingSpacing ==
    \A fn \in TrapFns :
        Done(fn) =>
            /\ (call.grid.given /\ ~call.grid.h_given) =>
                   (out.err = "ValueError" /\ ~ModelCalled)
            /\ (call.grid.given /\ call.grid.h_given) => out.err # "ValueError"
            /\ ~call.grid.given =>
                   LET g == compute_integration_grid(call.N, call.noise, call.rng)
                   IN  IF RoundCbrt(call.N) >= 2
                       THEN /\ out.err = "none"
                            /\ out.sample_points = g.sample_points
                            /\ out.h = g.h
                       ELSE out.err = "IndexError" /\ ~ModelCalled

C3_Witness ==
    /\ Done("ACC_trap")
    /\ call.grid.given /\ ~call.grid.h_given
    /\ Len(call.target_points) > 0
    /\ out.err = "ValueError"

\* the call of the same trapezoid integrator with the same targets, density
\* field and encoding, budget B, noise 0 and no grid
TrapCall(fn, N, noise, grid) ==
    IF fn = "U_trap_opt"
    THEN U_trap_opt(call.target_points, call.model, call.encoding, N, noise, grid,
                    call.rng)
    ELSE ACC_trap(call.target_points, call.model, call.encoding, N, noise, grid,
                  call.rng)

\* C4 (as claimed): a trapezoid integrator given the grid and h of
\* compute_integration_grid(B, noise=0) and N = B returns the estimate of the
\* call without a grid with N = B and noise = 0.
C4_Original ==
    \A fn \in TrapFns :
        (Done(fn) /\ call.mode = "grid_budget") =>
            LET plain == TrapCall(fn, call.B, Zero, NoGrid)
            IN  out.err = plain.err /\ out.retval = plain.retval

\* C4 (amended): a trapezoid integrator given the grid and h of
\* compute_integration_grid(B, noise=0) and, as N, the resolution that
\* compute_integration_grid returned (not the budget B) raises no error and
\* returns the estimate of the call without a grid with N = B and noise = 0.
C4_PrecomputedGrid ==
    \A fn \in TrapFns :
        (Done(fn) /\ call.mode = "grid_n") =>
            LET plain == TrapCall(fn, call.B, Zero, NoGrid)
            IN  /\ out.err = "none" /\ plain.err = "none"
                /\ out.retval = plain.retval
                /\ Len(out.retval) = Len(call.target_points)

C4_Witness ==
    /\ Done("ACC_trap") /\ call.mode = "grid_n"
    /\ call.B # call.N /\ call.N = 3
    /\ Len(call.target_points) = 2
    /\ out.err = "none"
    /\ out.retval[1] # out.retval[2]

\* the composite trapezoid weight of index i on an axis of n nodes
TrapWeight(i, n) == IF i = 1 \/ i = n THEN Q(1, 2) ELSE One

\* -h^3 * Sum_{i,j,k} w_i * w_j * w_k * f[i,j,k] over the n x n x n lattice
WeightedLatticeSum(f, n, h) ==
    LET w(r) == RMul(TrapWeight(((r - 1) \div (n * n)) + 1, n),
                     RMul(TrapWeight((((r - 1) \div n) % n) + 1, n),
                          TrapWeight(((r - 1) % n) + 1, n)))
    IN  Canon(FScale(FSum([r \in 1..(n * n * n) |-> FScale(f[r], w(r))]),
                     RNeg(RMul(h, RMul(h, h)))))

\* C5: for every target point the value of U_trap_opt, and each of the three
\* components of ACC_trap, is -h^3 * Sum w_i*w_j*w_k*f[i,j,k] over the lattice
\* of integrand values f, with weight 1/2 at the two end indices of an axis
\* and 1 inside.
C5_TrapezoidWeights ==
    /\ (Done("U_trap_opt") /\ out.err = "none") =>
          \A i \in 1..Len(call.target_points) :
              out.retval[i] =
                  <<WeightedLatticeSum(
                        U_integrand(call.target_points[i], out.sample_points, out.rho),
                        out.N, out.h)>>
    /\ (Done("ACC_trap") /\ out.err = "none") =>
          \A i \in 1..Len(call.target_points) : \A c \in 1..3 :
              out.retval[i][c] =
                  WeightedLatticeSum(
                      Component(ACC_integrand(call.target_points[i], out.sample_points,
                                              out.rho), c),
                      out.N, out.h)

C5_Witness ==
    /\ Done("U_trap_opt") /\ out.err = "none"
    /\ out.N = 3
    /\ Len(call.target_points) > 0
    /\ out.retval[1][1] # FZero
    /\ ~NonFinite(out.retval[1][1])

\* -(8/N) * Sum_j rho[j] / |t - s_j| as one value
McPotential(t, sample_points, rho, N) ==
    Canon(FScale(FSum([j \in 1..Len(sample_points) |->
                          FTerm(dist2(t, sample_points[j]), rho[j])]),
                 Q(-8, N)))

\* component c of -(8/N) * Sum_j rho[j] * (t - s_j) / |t - s_j|^3
McAcceleration(t, sample_points, rho, N, c) ==
    Canon(FScale(FSum([j \in 1..Len(sample_points) |->
                          FTerm(dist2(t, sample_points[j]),
                                RMul(rho[j], RSub(t[c], sample_points[j][c])))]),
                 Q(-8, N)))

\* the density of the call's field at the call's sample points
DensityAt(model, encoding, sample_points) ==
    model_apply(model, ZeroNaNs(encoding_apply(encoding, sample_points)))

\* the call made, repeated with another density field and other target points
Recall(model, target_points) ==
    CASE call.fn = "U_mc" ->
            U_mc(target_points, model, call.encoding, call.N, call.rng)
      [] call.fn = "U_ld" ->
            U_ld(target_points, model, call.encoding, call.N, call.noise,
                 sobol_points, call.rng)
      [] call.fn = "ACC_ld" ->
            ACC_ld(target_points, model, call.encoding, call.N, call.noise,
                   sobol_points, call.rng)
      [] call.fn = "U_trap_opt" ->
            U_trap_opt(target_points, model, call.encoding, call.N, call.noise,
                       call.grid, call.rng)
      [] call.fn = "ACC_trap" ->
            ACC_trap(target_points, model, call.encoding, call.N, call.noise,
                     call.grid, call.rng)

ScaleRow(row, k) == [c \in 1..Len(row) |-> Canon(FScale(row[c], RInt(k)))]

McFns == {"U_mc", "U_ld", "ACC_ld"}

\* C6: U_mc and U_ld return for target t_i the value
\* -(8/N) * Sum_j rho(s_j)/|t_i - s_j| over the N sample points of the call,
\* ACC_ld the vector -(8/N) * Sum_j rho(s_j)*(t_i - s_j)/|t_i - s_j|^3, with
\* rho(s_j) the density field at the encoded sample point; a density field
\* scaled by k gives the result of the unscaled field scaled by k.
C6_MonteCarloSum ==
    \A fn \in McFns :
        (Done(fn) /\ out.err = "none") =>
            /\ Len(out.sample_points) = call.N
            /\ out.rho = DensityAt(call.model, call.encoding, out.sample_points)
            /\ \A i \in 1..Len(call.target_points) :
                  IF fn = "ACC_ld"
                  THEN \A c \in 1..3 :
                          out.retval[i][c] =
                              McAcceleration(call.target_points[i], out.sample_points,
                                             out.rho, call.N, c)
                  ELSE out.retval[i] =
                          <<McPotential(call.target_points[i], out.sample_points,
                                        out.rho, call.N)>>
            /\ LET unit == Recall([call.model EXCEPT !.k = 1], call.target_points)
               IN  \A i \in 1..Len(call.target_points) :
                      out.retval[i] = ScaleRow(unit.retval[i], call.model.k)

C6_Witness ==
    /\ Done("ACC_ld") /\ out.err = "none"
    /\ call.N >= 2
    /\ call.model.k >= 2
    /\ RPos(call.noise)
    /\ Len(call.target_points) > 0
    /\ \A c \in 1..3 : ~NonFinite(out.retval[1][c])
    /\ out.retval[1][3] # FZero

IntegratorFns == {"U_mc", "U_ld", "U_trap_opt", "ACC_ld", "ACC_trap"}
RowWidth(fn) == IF fn \in {"ACC_ld", "ACC_trap"} THEN 3 ELSE 1
Reverse(seq) == [i \in 1..Len(seq) |-> seq[Len(seq) + 1 - i]]

\* C7: every integrator returns one row per target point, in target order,
\* of width 1 (U_mc, U_ld, U_trap_opt) or 3 (ACC_ld, ACC_trap); row i is the
\* row the same call returns for target_points[i] alone, and the call on the
\* reversed target points returns the reversed rows; for no target points
\* the result is empty.
C7_RowPerTarget ==
    \A fn \in IntegratorFns :
        (Done(fn) /\ out.err = "none") =>
            /\ Len(out.retval) = Len(call.target_points)
            /\ \A i \in 1..Len(out.retval) :
                  /\ Len(out.retval[i]) = RowWidth(fn)
                  /\ out.retval[i] =
                         Recall(call.model, <<call.target_points[i]>>).retval[1]
            /\ Recall(call.model, Reverse(call.target_points)).retval
                   = Reverse(out.retval)

C7_Witness ==
    /\ Done("ACC_trap") /\ out.err = "none"
    /\ Len(call.target_points) = 2
    /\ call.target_points[1] # call.target_points[2]
    /\ out.retval[1] # out.retval[2]
    /\ Len(out.retval[2]) = 3

Cube(n) == n * n * n

\* C8: compute_integration_grid(B, noise) with rounded cube root n >= 2 of B
\* returns exactly n^3 points of 3 coordinates and reports n, where n is the
\* integer nearest to the cube root of B ((n - 1/2)^3 < B < (n + 1/2)^3), so
\* the count is a perfect cube that may differ from B; a trapezoid integrator
\* called without a grid reshapes its lattice with this n, not with B.
C8_GridIsCube ==
    /\ (Done("compute_integration_grid") /\ out.err = "none") =>
          /\ Cube(2 * out.N - 1) < 8 * call.N /\ 8 * call.N < Cube(2 * out.N + 1)
          /\ out.N >= 2
          /\ Len(out.sample_points) = Cube(out.N)
          /\ \A r \in 1..Len(out.sample_points) : Len(out.sample_points[r]) = 3
    /\ Done("compute_integration_grid") =>
          (out.err = "none" <=> Cube(3) <= 8 * call.N)
    /\ \A fn \in TrapFns :
          (Done(fn) /\ ~call.grid.given /\ out.err = "none") =>
              /\ Cube(2 * out.N - 1) < 8 * call.N /\ 8 * call.N < Cube(2 * out.N + 1)
              /\ Len(out.sample_points) = Cube(out.N)
              /\ Len(out.rho) = Cube(out.N)

C8_Witness ==
    /\ Done("compute_integration_grid") /\ out.err = "none"
    /\ out.N = 2
    /\ call.N = 15
    /\ Len(out.sample_points) = 8

\* C9: the spacing h returned by compute_integration_grid for resolution n is
\* 2/(n-1), the distance between adjacent nodes of the grid whose first node
\* is -1 and last node is 1, and it is the same for every noise argument.
C9_Spacing ==
    (Done("compute_integration_grid") /\ out.err = "none") =>
        LET n == out.N
            plain == compute_integration_grid(call.N, Zero, call.rng)
        IN  /\ out.h = Q(2, n - 1)
            /\ plain.sample_points[1] = <<RInt(-1), RInt(-1), RInt(-1)>>
            /\ plain.sample_points[Cube(n)] = <<One, One, One>>
            /\ \A k \in 1..(n - 1) :
                  RSub(plain.sample_points[k + 1][3], plain.sample_points[k][3]) = out.h
            /\ \A noise \in Noises :
                  compute_integration_grid(call.N, noise, call.rng).h = out.h

C9_Witness ==
    /\ Done("compute_integration_grid") /\ out.err = "none"
    /\ out.N = 3
    /\ RPos(call.noise)
    /\ out.h = One
    /\ out.sample_points # compute_integration_grid(call.N, Zero, call.rng).sample_points

\* C10: _compute_model_output applies the encoding to the raw points; if an
\* encoded value is NaN it warns once and hands the density field the encoded
\* batch with exactly the NaN entries replaced by 0, otherwise it does not
\* warn and hands over the encoded batch unchanged; the density field is
\* invoked once, after the warning, and no integrator hands it a NaN either.
C10_NaNInputsZeroed ==
    /\ Done("_compute_model_output") =>
          LET encoded == encoding_apply(call.encoding, call.sample_points)
              fed == out.model_inputs[1]
          IN  /\ Len(out.model_inputs) = 1
              /\ Len(fed) = Len(encoded)
              /\ \A j \in 1..Len(encoded) : \A c \in 1..3 :
                    fed[j][c] = IF IsNaN(encoded[j][c]) THEN Zero ELSE encoded[j][c]
              /\ out.events = IF AnyNaN(encoded) THEN <<"warn", "model">>
                              ELSE <<"model">>
              /\ out.retval = model_apply(call.model, fed)
    /\ (pc = "done" /\ call.fn \in IntegratorFns \cup {"_compute_model_output"}) =>
          \A b \in 1..Len(out.model_inputs) : ~AnyNaN(out.model_inputs[b])

C10_Witness ==
    /\ Done("_compute_model_output")
    /\ out.events = <<"warn", "model">>
    /\ \E j \in 1..Len(call.sample_points) :
          /\ RLess(call.sample_points[j][1], Zero)
          /\ RPos(call.sample_points[j][3])
          /\ out.model_inputs[1][j] = <<Zero, call.sample_points[j][2],
                                        call.sample_points[j][3]>>

\* C11: the value returned by _compute_model_output, alone or inside an
\* integrator, holds no NaN that the density field's output put there (a NaN
\* density output is zeroed with a warning).
C11_NaNOutputsZeroed ==
    /\ Done("_compute_model_output") =>
          \A j \in 1..Len(out.retval) : ~IsNaN(out.retval[j])
    /\ \A fn \in IntegratorFns :
          (Done(fn) /\ out.err = "none") =>
              \A j \in 1..Len(out.rho) : ~IsNaN(out.rho[j])

LdFns == {"U_ld", "ACC_ld"}

\* C12: sobol_points always holds what the import left in it: TableSize
\* points (standing for the 200000) of 3 coordinates in [0,1), the same
\* after every U_ld and ACC_ld call, failed calls included.
C12_TableReadOnly ==
    /\ sobol_points = i4_sobol_generate(TableSize)
    /\ Len(sobol_points) = TableSize
    /\ \A j \in 1..Len(sobol_points) :
          /\ Len(sobol_points[j]) = 3
          /\ \A c \in 1..3 :
                ~RLess(sobol_points[j][c], Zero) /\ RLess(sobol_points[j][c], One)

C12_Witness ==
    /\ pc = "done" /\ call.fn \in LdFns
    /\ out.err = "none"
    /\ call.N = TableSize
    /\ Len(out.sample_points) = TableSize
    /\ sobol_points = i4_sobol_generate(TableSize)

\* the jitter of coordinate c of sample j: what was added to 2*table[j] - 1
Jitter(sample_points, table, j, c) ==
    RSub(sample_points[j][c], RSub(RMul(RInt(2), table[j][c]), One))

\* C13: a U_ld or ACC_ld call with N within the table uses N samples, the
\* j-th being 2*table[j] - 1 plus a jitter in [0, noise) in every coordinate
\* (exactly 0 when noise = 0); with noise = 0 the samples do not depend on
\* the generator, and the samples of a call with a larger N start with them.
C13_LdSamplesArePrefix ==
    (pc = "done" /\ call.fn \in LdFns /\ call.N <= TableSize) =>
        /\ out.err = "none"
        /\ Len(out.sample_points) = call.N
        /\ \A j \in 1..call.N : \A c \in 1..3 :
              LET jit == Jitter(out.sample_points, sobol_points, j, c)
              IN  /\ ~RLess(jit, Zero)
                  /\ RPos(call.noise) => RLess(jit, call.noise)
                  /\ ~RPos(call.noise) => jit = Zero
        /\ call.noise = Zero =>
              \A N2 \in call.N..TableSize : \A rng2 \in 0..(RngMod - 1) :
                  SubSeq(ld_samples(sobol_points, N2, Zero, rng2), 1, call.N)
                      = out.sample_points

C13_Witness ==
    /\ pc = "done" /\ call.fn \in LdFns
    /\ out.err = "none"
    /\ call.N = 2
    /\ RPos(call.noise)
    /\ \E j \in 1..2 : \E c \in 1..3 :
          RPos(Jitter(out.sample_points, sobol_points, j, c))
    /\ out.sample_points[1] # out.sample_points[2]

\* C14: the training loop's call mc_method(points, density_field, encoding,
\* N=sample_budget, noise=x) meets no argument error, whichever of U_mc,
\* U_ld, U_trap_opt, ACC_ld, ACC_trap is mc_method.
C14_UniformCallForm ==
    Done("mc_method") => out.err # "TypeError"

SupportedMethods == {"cubical", "spherical", "spherical_grid"}

\* the callable f was invoked and f is the lambda of the given method
Invoked(method) ==
    /\ Done("targets_point_sampler")
    /\ call.sampler.kind = "lambda"
    /\ call.sampler.method = method

\* C15: get_target_point_sampler raises nothing; for a method name other
\* than cubical, spherical, spherical_grid it returns None (which cannot be
\* invoked), for each of the three it returns a callable without parameters.
C15_UnsupportedMethodGivesNone ==
    /\ Done("get_target_point_sampler") =>
          /\ out.err = "none"
          /\ call.method \notin SupportedMethods => out.sampler = NoSampler
          /\ call.method \in SupportedMethods =>
                /\ out.sampler.kind = "lambda"
                /\ out.sampler.params = {}
                /\ out.sampler.method = call.method
    /\ Done("targets_point_sampler") =>
          (out.err = "TypeError" <=> call.sampler = NoSampler)

C15_Witness ==
    /\ Done("targets_point_sampler")
    /\ call.sampler = NoSampler
    /\ out.err = "TypeError"

\* a point with every coordinate within [-s, s]
InCube(p, s) == \A c \in 1..3 : ~RLess(s, RAbs(p[c]))

\* C16: every point the cubical sampler returns has a coordinate c with
\* |c| > scale_bounds[0] and has |c| <= scale_bounds[1] in every coordinate;
\* no candidate inside or on the faces of the inner cube is returned.
C16_CubicalShell ==
    (Invoked("cubical") /\ out.err = "none") =>
        LET s0 == call.sampler.bounds[1]
            s1 == call.sampler.bounds[2]
            candidates == cubical_candidates(call.sampler.bounds, call.draws)
        IN  /\ \A j \in 1..Len(out.retval) :
                  /\ Len(out.retval[j]) = 3
                  /\ \E c \in 1..3 : RLess(s0, RAbs(out.retval[j][c]))
                  /\ InCube(out.retval[j], s1)
            /\ \A j \in 1..Len(candidates) :
                  InCube(candidates[j], s0) => candidates[j] \notin Range(out.retval)

C16_Witness ==
    /\ Invoked("cubical") /\ out.err = "none"
    /\ Len(out.retval) = 1
    /\ LET candidates == cubical_candidates(call.sampler.bounds, call.draws)
       IN  /\ Len(candidates) = 2
           /\ InCube(candidates[1], call.sampler.bounds[1])
           /\ \E c \in 1..3 : RAbs(candidates[1][c]) = call.sampler.bounds[1]
           /\ out.retval[1] = candidates[2]

\* the candidates outside the inner cube, in draw order
Survivors(candidates, s0) ==
    LET outside(p) == ~InCube(p, s0) IN SelectSeq(candidates, outside)

\* C17 as stated, for every scale_bounds: an invocation of the cubical
\* sampler raises nothing and returns at most N points, the first survivors.
C17_Original ==
    Invoked("cubical") =>
        /\ out.err = "none"
        /\ Len(out.retval) <= call.sampler.N
        /\ LET survivors == Survivors(cubical_candidates(call.sampler.bounds,
                                                         call.draws),
                                      call.sampler.bounds[1])
           IN  out.retval = SubSeq(survivors, 1, Len(out.retval))

\* C17: with scale_bounds[0] < scale_bounds[1] the cubical sampler draws
\* int(2*N/(1-(scale_bounds[0]/scale_bounds[1])^3)) candidates in one
\* torch.rand call and returns the first K = min(N, survivors) survivors in
\* draw order, so K <= N; with fewer than N survivors it returns them all and
\* raises nothing.
C17_CubicalCount ==
    (Invoked("cubical") /\ RLess(call.sampler.bounds[1], call.sampler.bounds[2])) =>
        LET N == call.sampler.N
            s0 == call.sampler.bounds[1]
            s1 == call.sampler.bounds[2]
            ratio == RDiv(s0, s1)
            count == Trunc(RDiv(RInt(2 * N),
                                RSub(One, RMul(ratio, RMul(ratio, ratio)))))
            survivors == Survivors(cubical_candidates(call.sampler.bounds, call.draws), s0)
            K == IF N < Len(survivors) THEN N ELSE Len(survivors)
        IN  /\ out.err = "none"
            /\ Len(call.draws) = count
            /\ out.rng = RngAfter(call.rng, 3 * count)
            /\ out.calls = <<"_sample_cubical">>
            /\ out.retval = SubSeq(survivors, 1, K)
            /\ Len(out.retval) <= N

C17_Witness ==
    /\ Invoked("cubical") /\ out.err = "none"
    /\ call.sampler.N = 1
    /\ Len(call.draws) = 2
    /\ Len(out.retval) = 0

\* the cube of a rational
RCube(a) == RMul(a, RMul(a, a))

\* the squared length of a direction
Norm2(d) == RAdd(RMul(d[1], d[1]), RAdd(RMul(d[2], d[2]), RMul(d[3], d[3])))

\* C18: every point the spherical sampler returns is r times a unit
\* direction with radius_bounds[0] <= r <= radius_bounds[1] (compared through
\* the cubes); with radius_bounds = [r0, r0] every norm is r0.
C18_SphericalShell ==
    Invoked("spherical") =>
        LET R0 == call.sampler.bounds[1]
            R1 == call.sampler.bounds[2]
        IN  /\ out.err = "none"
            /\ Len(out.retval) = call.sampler.N
            /\ \A j \in 1..Len(out.retval) :
                  /\ Norm2(out.retval[j].dir) = One
                  /\ ~RLess(out.retval[j].r3, RCube(R0))
                  /\ ~RLess(RCube(R1), out.retval[j].r3)
                  /\ R0 = R1 => out.retval[j].r3 = RCube(R0)

C18_Witness ==
    /\ Invoked("spherical") /\ out.err = "none"
    /\ Len(out.retval) = 1
    /\ RLess(RCube(call.sampler.bounds[1]), out.retval[1].r3)
    /\ RLess(out.retval[1].r3, RCube(call.sampler.bounds[2]))
    /\ out.retval[1].dir = <<Zero, Q(4, 5), Q(3, 5)>>

\* C19: with radius_bounds[0] < radius_bounds[1] the norms of the spherical
\* sampler start at the inner radius: the smallest value torch.rand can
\* return for the radius (0) gives a point of norm radius_bounds[0].
C19_InnerRadiusAttained ==
    (Invoked("spherical") /\ RLess(call.sampler.bounds[1], call.sampler.bounds[2])) =>
        \A j \in 1..Len(out.retval) :
            call.draws[j][3] = Zero =>
                out.retval[j].r3 = RCube(call.sampler.bounds[1])

\* C20: for spherical_grid the batch is computed by get_target_point_sampler
\* (its only run of _get_spherical_grid) and every invocation of the callable
\* returns that batch, the same as the invocation before, running no
\* sampling function and drawing nothing; get_target_point_sampler samples
\* nothing for cubical and spherical, and every invocation of their callable
\* runs the sampling function once on newly drawn values.
C20_GridComputedOnce ==
    [][/\ call'.fn = "get_target_point_sampler" =>
            /\ rng' = rng
            /\ out'.calls = IF call'.method = "spherical_grid"
                            THEN <<"_get_spherical_grid">> ELSE << >>
            /\ call'.method = "spherical_grid" =>
                  out'.sampler.points = _get_spherical_grid(call'.N)
       /\ (call'.fn = "targets_point_sampler" /\ call'.nth = call.nth + 1
             /\ out.sampler.kind = "lambda") =>
            LET f == out.sampler
            IN  /\ call'.sampler = f
                /\ out'.sampler = f
                /\ f.method = "spherical_grid" =>
                      /\ out'.err = "none"
                      /\ out'.retval = f.points
                      /\ out'.calls = << >>
                      /\ rng' = rng
                      /\ call.fn = "targets_point_sampler" => out'.retval = out.retval
                /\ (f.method = "cubical" /\ out'.err = "none") =>
                      /\ out'.calls = <<"_sample_cubical">>
                      /\ out'.retval =
                            _sample_cubical(f.N, f.bounds, call'.draws, rng).retval
                      /\ rng' = RngAfter(rng, 3 * Len(call'.draws))
                /\ f.method = "spherical" =>
                      /\ out'.calls = <<"_sample_spherical">>
                      /\ out'.retval =
                            _sample_spherical(f.N, f.bounds, call'.draws, rng).retval
                      /\ rng' = RngAfter(rng, 3 * f.N)
      ]_vars

C20_Witness ==
    /\ Invoked("spherical_grid")
    /\ call.nth = 2
    /\ out.err = "none"
    /\ Len(out.retval) = 4
    /\ out.retval = call.sampler.points
    /\ out.rng = call.rng

\* C21: the spherical_grid sampler holds exactly k^2 points, k^2 the largest
\* perfect square not exceeding the requested count N, so never more than N.
C21_GridRoundsDown ==
    (Done("get_target_point_sampler") /\ call.method = "spherical_grid") =>
        LET count == Len(out.sampler.points)
        IN  /\ count <= call.N
            /\ \E k \in 0..call.N :
                  /\ k * k <= call.N /\ call.N < (k + 1) * (k + 1)
                  /\ count = k * k

\* C22: the acceleration label of two unit masses at (-1/2,0,0) and
\* (1/2,0,0) at the target (0,0,2) has x and y components exactly 0 and z
\* component -4/4.25^(3/2) (coefficient -4 on the squared distance 17/4); the
\* label of one unit mass at the origin points from the target to the mass.
C22_MasconLabel ==
    Done("ACC_L") =>
        \A i \in 1..Len(call.target_points) :
            /\ Len(out.retval) = Len(call.target_points)
            /\ (call.target_points[i] = <<Zero, Zero, RInt(2)>>
                  /\ call.mascon_points = <<<<Q(-1, 2), Zero, Zero>>, <<Q(1, 2), Zero, Zero>>>>
                  /\ call.mascon_masses = <<One, One>>) =>
                  out.retval[i] = <<FZero, FZero, FTerm(Q(17, 4), RInt(-4))>>
            /\ (call.target_points[i] = <<Zero, Zero, RInt(2)>>
                  /\ call.mascon_points = <<<<Zero, Zero, Zero>>>>) =>
                  out.retval[i] = <<FZero, FZero, FTerm(RInt(4), RInt(-2))>>

C22_Witness ==
    /\ Done("ACC_L")
    /\ Len(call.mascon_points) = 2
    /\ call.target_points = <<<<Zero, Zero, RInt(2)>>>>
    /\ out.retval[1][3] = FTerm(Q(17, 4), RInt(-4))

\* C24: _compute_model_output leaves the caller's batch of raw sample points
\* as it was, for every encoding, and so does a trapezoid integrator given a
\* precomputed grid.
C24_NoMutation ==
    /\ Done("_compute_model_output") => out.sample_points_after = call.sample_points
    /\ \A fn \in TrapFns :
          (Done(fn) /\ call.grid.given /\ call.grid.h_given) =>
              out.sample_points = call.grid.sample_points

\* the number of density-field invocations of the finished call
Invocations == Cardinality({i \in DOMAIN out.events : out.events[i] = "model"})

\* C25: a call of an integrator that returns has invoked the density field
\* exactly once, on the encoding of its whole batch of sample points, whatever
\* the number of target points (also for none); no call invokes it twice; and
\* a trapezoid call that fails on its first target point had invoked it
\* already, on the whole grid.
C25_DensityOnce ==
    \A fn \in IntegratorFns :
        Done(fn) =>
            /\ Invocations <= 1
            /\ Len(out.model_inputs) = Invocations
            /\ (out.err = "none" \/ (fn \in TrapFns /\ out.err = "RuntimeError")) =>
                  /\ Invocations = 1
                  /\ Len(out.model_inputs[1]) = Len(out.sample_points)
                  /\ Len(out.rho) = Len(out.sample_points)
                  /\ out.model_inputs[1] =
                         _compute_model_output(call.model, call.encoding,
                                               out.sample_points).model_inputs[1]

C25_Witness ==
    /\ Done("U_mc") /\ out.err = "none"
    /\ call.target_points = << >>
    /\ call.N > 0
    /\ Invocations = 1

\* the finished trapezoid call made again with another noise argument and
\* another state of the generator
TrapAgain(fn, noise, rng2) ==
    IF fn = "U_trap_opt"
    THEN U_trap_opt(call.target_points, call.model, call.encoding, call.N, noise,
                    call.grid, rng2)
    ELSE ACC_trap(call.target_points, call.model, call.encoding, call.N, noise,
                  call.grid, rng2)

SuppliedGrid(fn) == Done(fn) /\ call.grid.given /\ call.grid.h_given

\* a trapezoid call on a supplied grid returns what the same call returns
\* with any other noise argument and generator state, and draws nothing
C26_SameResult ==
    \A fn \in TrapFns :
        SuppliedGrid(fn) =>
            /\ out.rng = call.rng
            /\ \A noise \in Noises : \A rng2 \in 0..(RngMod - 1) :
                  LET again == TrapAgain(fn, noise, rng2)
                  IN  again.err = out.err /\ again.retval = out.retval

\* the grid the call worked on, and leaves behind, is the supplied grid
C26_GridUnchanged ==
    \A fn \in TrapFns :
        SuppliedGrid(fn) => out.sample_points = call.grid.sample_points

\* C26: U_trap_opt and ACC_trap on a supplied grid (sample_points, h, N)
\* return the same result whatever the noise argument, add no jitter to the
\* supplied grid and leave it unchanged.
C26_DeterministicGivenGrid == C26_SameResult /\ C26_GridUnchanged

\* target i of the finished call is one of its sample points
Coincides(i) == \E j \in DOMAIN out.sample_points :
                    out.sample_points[j] = call.target_points[i]

\* a target point outside the cube of the samples
FarTarget == <<Zero, Zero, RInt(2)>>

\* C27: a target point that is one of the sample points makes no integrator
\* raise (the call ends as the call on a target away from every sample ends);
\* every component of its row is non-finite, and the row of any other target
\* point of the call is the row the call returns for that target point alone.
C27_ZeroDistanceUnguarded ==
    \A fn \in IntegratorFns :
        Done(fn) =>
            /\ (\E i \in DOMAIN call.target_points :
                    call.target_points[i] # FarTarget) =>
                  out.err = Recall(call.model, <<FarTarget>>).err
            /\ out.err = "none" =>
                  \A i \in DOMAIN call.target_points :
                      Coincides(i) =>
                          /\ \A c \in 1..RowWidth(fn) : NonFinite(out.retval[i][c])
                          /\ \A m \in DOMAIN call.target_points :
                                ~Coincides(m) =>
                                    out.retval[m] =
                                        Recall(call.model,
                                               <<call.target_points[m]>>).retval[1]

C27_Witness ==
    /\ Done("ACC_trap") /\ out.err = "none"
    /\ Len(call.target_points) = 2
    /\ Coincides(1) /\ ~Coincides(2)
    /\ \A c \in 1..3 : NonFinite(out.retval[1][c])
    /\ \A c \in 1..3 : ~NonFinite(out.retval[2][c])

\* the flat index (from 1) of lattice cell (i, j, k), each from 0, after
\* reshape([n, n, n])
Flat(i, j, k, n) == i * n * n + j * n + k + 1

\* a trapezoid call on a grid of compute_integration_grid without noise
OnPlainGrid(fn) ==
    /\ Done(fn) /\ out.err = "none"
    /\ \/ call.mode = "grid_n"
       \/ call.mode = "none" /\ call.noise = Zero

OnlyPositiveAt(j) ==
    /\ j \in DOMAIN out.rho
    /\ RPos(out.rho[j])
    /\ \A m \in DOMAIN out.rho : m # j => out.rho[m] = Zero
    /\ ~AnyNaN(out.sample_points)

\* the value is coef / |s - t| or coef / |s - t|^3 with coef of the given sign
SignedTerm(value, t, s, positive) ==
    /\ DOMAIN value = {dist2(t, s)}
    /\ IF positive THEN RPos(value[dist2(t, s)])
       ELSE RLess(value[dist2(t, s)], Zero)

\* row is lambda * (s - t) / |s - t|^3 for one positive lambda
AlongLabel(row, t, s) ==
    \E c0 \in 1..3 :
        /\ s[c0] # t[c0]
        /\ DOMAIN row[c0] = {dist2(t, s)}
        /\ LET lambda == RDiv(row[c0][dist2(t, s)], RSub(s[c0], t[c0]))
           IN  /\ RPos(lambda)
               /\ \A c \in 1..3 :
                     row[c] = Canon(FTerm(dist2(t, s),
                                          RMul(lambda, RSub(s[c], t[c]))))

\* what C29 says of target i when the one sample of positive density is j
SignAt(fn, i, j) ==
    LET t == call.target_points[i]
        s == out.sample_points[j]
    IN  IF fn \in {"ACC_ld", "ACC_trap"} THEN AlongLabel(out.retval[i], t, s)
        ELSE SignedTerm(out.retval[i][1], t, s, FALSE)

\* C29 (as claimed): for a density positive at exactly one sample point s and
\* zero at the others, ACC_ld and ACC_trap return at every target t other
\* than s a positive multiple of (s - t), and U_mc, U_ld and U_trap_opt a
\* negative potential.
C29_Original ==
    \A fn \in IntegratorFns :
        (Done(fn) /\ out.err = "none") =>
            \A j \in DOMAIN out.rho : OnlyPositiveAt(j) =>
                \A i \in DOMAIN call.target_points :
                    call.target_points[i] # out.sample_points[j] => SignAt(fn, i, j)

\* C29 (amended): for a density positive at exactly one sample point s and
\* zero at the others, ACC_ld and ACC_trap return at every target t that is
\* none of the sample points a positive multiple of (s - t), and U_mc, U_ld
\* and U_trap_opt a negative potential.
C29_SignConvention ==
    \A fn \in IntegratorFns :
        (Done(fn) /\ out.err = "none") =>
            \A j \in DOMAIN out.rho : OnlyPositiveAt(j) =>
                \A i \in DOMAIN call.target_points :
                    ~Coincides(i) => SignAt(fn, i, j)

C29_Witness ==
    /\ Done("ACC_trap") /\ out.err = "none" /\ out.N = 3
    /\ call.model.base = "bump_face"
    /\ OnlyPositiveAt(Flat(1, 0, 1, 3))
    /\ call.target_points = <<FarTarget>>
    /\ AlongLabel(out.retval[1], FarTarget, <<Zero, RInt(-1), Zero>>)

InLoop == pc = "loop" /\ call.fn = "plot_model_rejection"

\* an iteration that goes round again has accepted at least one candidate
\* and raised found by the number accepted; one that accepts nothing returns
\* at once with nothing changed
LoopProgress ==
    InLoop =>
        /\ pc' = "loop" =>
              /\ out'.found > out.found
              /\ out'.found = Len(out'.all_points)
              /\ Len(out'.all_rho) = Len(out'.all_points)
        /\ (pc' = "done" /\ out'.returned) =>
              /\ out.found < call.N
              /\ out' = [out EXCEPT !.returned = TRUE]

\* after the loop found >= N and exactly the first N accepted points and
\* densities are kept
KeptFirstN ==
    (Done("plot_model_rejection") /\ ~out.returned) =>
        /\ out.found >= call.N
        /\ out.found = Len(out.all_points)
        /\ Len(out.points) = call.N /\ Len(out.rho) = call.N
        /\ \A m \in 1..call.N :
              out.points[m] = out.all_points[m] /\ out.rho[m] = out.all_rho[m]

\* C30: the loop `while found < N` of plot_model_rejection terminates for
\* every density model: an iteration either accepts at least one candidate,
\* which strictly increases found, or accepts none and returns at once; once
\* in the loop the function gets out of it; and after a normal exit
\* found >= N and exactly the first N accepted points and densities are kept.
C30_RejectionLoopTerminates ==
    /\ [][LoopProgress]_vars
    /\ [](KeptFirstN)
    /\ InLoop ~> (pc = "done")

C30_Witness ==
    /\ Done("plot_model_rejection") /\ ~out.returned
    /\ call.N = 2
    /\ out.found > call.N
    /\ Len(out.points) = 2
====
